---- MODULE Spec2Model ----
(***************************************************************************)
(* Model of next.config.js: the configuration record (nextConfig), its     *)
(* headers() method and its webpack hook, together with the consumers the  *)
(* record is written for: the loader of the module, the evaluation of      *)
(* headers(), request handlers that attach the matching header rules to a  *)
(* response, the image source resolution governed by the images setting,   *)
(* and the bundler run that receives the hook's plugin.                    *)
(***************************************************************************)
EXTENDS Integers, Sequences, FiniteSets, TLC

\* ------------------------------------------------------------------ bounds
MaxRequests == 2    \* request handlers in flight at once
MaxEvals    == 2    \* evaluations of headers() in one process
MaxBuilds   == 2    \* bundler runs (compilations) in one process
MaxHookRuns == 2    \* invocations of the webpack hook on one bundler config

\* ------------------------------------------------------------ state
VARIABLES
  command,     \* what the process was started for: "build" or "start"
  phase,       \* "loading", "configured" or "failed"
  nextConfig,  \* module.exports of next.config.js
  routes,      \* the results of the evaluations of headers(), oldest first
  req,         \* per request handler: pc, path, headers to attach, response headers
  imgs,        \* per host: outcome of the image requests for it
  build,       \* the bundler run in progress
  artifacts    \* the finished bundler runs, oldest first

vars == <<command, phase, nextConfig, routes, req, imgs, build, artifacts>>

Requests == 1..MaxRequests

\* ------------------------------------------------------- request paths
\* Paths are sequences of characters, as the matcher sees them.
RootPath    == <<"/">>
ContactPath == <<"/", "c", "o", "n", "t", "a", "c", "t">>
ProjectPath == <<"/", "p", "r", "o", "j", "e", "c", "t", "s", "/", "1">>
ApiPath     == <<"/", "a", "p", "i", "/", "c", "h", "a", "t">>
Paths == {RootPath, ContactPath, ProjectPath, ApiPath}

\* ------------------------------------------------ the configuration record
\* The source pattern of the single header rule, "/(.*)".
SourceAll == <<"/", "(", ".", "*", ")">>

COEP == "Cross-Origin-Embedder-Policy"
COOP == "Cross-Origin-Opener-Policy"

\* headers() with a rule that only covers the root path.
headersRootOnly ==
  << [source  |-> <<"/">>,
      headers |-> << [key |-> COEP, value |-> "unsafe-none"],
                     [key |-> COOP, value |-> "same-origin-allow-popups"] >>] >>

\* headers() with the embedder policy tightened.
headersRequireCorp ==
  << [source  |-> SourceAll,
      headers |-> << [key |-> COEP, value |-> "require-corp"],
                     [key |-> COOP, value |-> "same-origin-allow-popups"] >>] >>

\* headers() with the opener policy tightened.
headersSameOrigin ==
  << [source  |-> SourceAll,
      headers |-> << [key |-> COEP, value |-> "unsafe-none"],
                     [key |-> COOP, value |-> "same-origin"] >>] >>

\* headers() with a third header in the rule.
headersExtra ==
  << [source  |-> SourceAll,
      headers |-> << [key |-> COEP, value |-> "unsafe-none"],
                     [key |-> COOP, value |-> "same-origin-allow-popups"],
                     [key |-> "X-Frame-Options", value |-> "DENY"] >>] >>

\* async headers(): the rules it resolves to.
headers ==
  << [source  |-> SourceAll,
      headers |-> << [key |-> COEP, value |-> "unsafe-none"],
                     [key |-> COOP, value |-> "same-origin-allow-popups"] >>] >>

AllowedHost == "n8n2.ibhost.online"

\* The literal with the image optimizer left on.
nextConfigOptimized ==
  [ eslint       |-> [ignoreDuringBuilds |-> TRUE],
    images       |-> [unoptimized |-> FALSE, domains |-> {AllowedHost}],
    experimental |-> [serverComponentsExternalPackages |-> {"@n8n/chat"}] ]

\* The data fields of the literal assigned to nextConfig.
nextConfigRecord ==
  [ eslint       |-> [ignoreDuringBuilds |-> TRUE],
    images       |-> [unoptimized |-> TRUE, domains |-> {AllowedHost}],
    experimental |-> [serverComponentsExternalPackages |-> {"@n8n/chat"}] ]

\* module.exports before line 45 has run.
Unloaded == [unloaded |-> TRUE]


\* Hosts an image source may name: the allowlisted one and one that is not listed.
Hosts == {AllowedHost, "images.example.com"}

\* ----------------------------------------------------- source patterns
\* The tokens of a source pattern: a literal character, the unnamed group
\* "(.*)", or a named parameter ":name" (one path segment).
RECURSIVE ParamEnd(_, _)
ParamEnd(src, i) ==
  IF i > Len(src) \/ src[i] \in {"/", "(", ":"} THEN i ELSE ParamEnd(src, i + 1)

RECURSIVE Tokens(_, _)
Tokens(src, i) ==
  IF i > Len(src) THEN << >>
  ELSE IF i + 3 <= Len(src) /\ SubSeq(src, i, i + 3) = <<"(", ".", "*", ")">>
       THEN << [type |-> "any", ch |-> ""] >> \o Tokens(src, i + 4)
  ELSE IF src[i] = ":"
       THEN << [type |-> "param", ch |-> ""] >> \o Tokens(src, ParamEnd(src, i + 1))
  ELSE << [type |-> "lit", ch |-> src[i]] >> \o Tokens(src, i + 1)

\* Anchored match of tokens i.. against the path from position j.
RECURSIVE MatchFrom(_, _, _, _)
MatchFrom(toks, i, p, j) ==
  IF i > Len(toks) THEN j > Len(p)
  ELSE CASE toks[i].type = "lit" ->
              /\ j <= Len(p)
              /\ p[j] = toks[i].ch
              /\ MatchFrom(toks, i + 1, p, j + 1)
         [] toks[i].type = "any" ->
              \E k \in j..(Len(p) + 1) :
                 /\ \A m \in j..(k - 1) : p[m] # "\n"
                 /\ MatchFrom(toks, i + 1, p, k)
         [] toks[i].type = "param" ->
              \E k \in (j + 1)..(Len(p) + 1) :
                 /\ \A m \in j..(k - 1) : p[m] # "/"
                 /\ MatchFrom(toks, i + 1, p, k)

\* Does the rule's source pattern match the request path?
Matches(source, p) == MatchFrom(Tokens(source, 1), 1, p, 1)

\* The headers of every rule that matches the path, in rule order.
RECURSIVE MatchingHeaders(_, _)
MatchingHeaders(rules, p) ==
  IF rules = << >> THEN << >>
  ELSE (IF Matches(Head(rules).source, p) THEN Head(rules).headers ELSE << >>)
       \o MatchingHeaders(Tail(rules), p)

\* res.setHeader(key, value): replaces the entry of that name or adds one.
setHeader(resHeaders, h) ==
  IF \E i \in 1..Len(resHeaders) : resHeaders[i].key = h.key
  THEN [i \in 1..Len(resHeaders) |->
          IF resHeaders[i].key = h.key THEN h ELSE resHeaders[i]]
  ELSE Append(resHeaders, h)

\* ------------------------------------------------------------ the bundler
\* JSON.stringify of a boolean.
JSONstringify(b) == IF b THEN "true" ELSE "false"

VueFlags == {"__VUE_OPTIONS_API__", "__VUE_PROD_DEVTOOLS__",
             "__VUE_PROD_HYDRATION_MISMATCH_DETAILS__"}

\* The hook's plugin with the production devtools switched on.
DefinePluginDevtoolsOn(isServer) ==
  [ kind |-> "DefinePlugin",
    definitions |->
      [ f \in VueFlags |->
          CASE f = "__VUE_OPTIONS_API__"   -> JSONstringify(TRUE)
            [] f = "__VUE_PROD_DEVTOOLS__" -> JSONstringify(TRUE)
            [] OTHER                       -> JSONstringify(FALSE) ] ]

\* The hook's plugin with the hydration flag left out.
DefinePluginTwoFlags(isServer) ==
  [ kind |-> "DefinePlugin",
    definitions |->
      [ f \in {"__VUE_OPTIONS_API__", "__VUE_PROD_DEVTOOLS__"} |->
          CASE f = "__VUE_OPTIONS_API__"   -> JSONstringify(TRUE)
            [] OTHER                       -> JSONstringify(FALSE) ] ]

\* The hook's plugin with the options API enabled in the client bundle only.
DefinePluginByTarget(isServer) ==
  [ kind |-> "DefinePlugin",
    definitions |->
      [ f \in VueFlags |->
          CASE f = "__VUE_OPTIONS_API__"   -> JSONstringify(~isServer)
            [] f = "__VUE_PROD_DEVTOOLS__" -> JSONstringify(FALSE)
            [] OTHER                       -> JSONstringify(FALSE) ] ]

\* new webpack.DefinePlugin({...}) of the hook.
DefinePlugin(isServer) ==
  [ kind |-> "DefinePlugin",
    definitions |->
      [ f \in VueFlags |->
          CASE f = "__VUE_OPTIONS_API__"   -> JSONstringify(TRUE)
            [] f = "__VUE_PROD_DEVTOOLS__" -> JSONstringify(FALSE)
            [] OTHER                       -> JSONstringify(FALSE) ] ]

\* The hook assigning a new plugin list instead of pushing onto the old one.
webpackReplacesPlugins(config, isServer) ==
  [config EXCEPT !.plugins = << DefinePlugin(isServer) >>]

\* webpack: (config, { isServer }) => { config.plugins.push(...); return config }
webpack(config, isServer) ==
  [config EXCEPT !.plugins = Append(@, DefinePlugin(isServer))]

\* Plugins the framework has put in a bundler config before the hook runs.
FrameworkDefine ==
  [ kind |-> "DefinePlugin",
    definitions |-> [ f \in {"process.env.NODE_ENV"} |-> "\"production\"" ] ]
CssPlugin == [ kind |-> "Other", definitions |-> [ f \in {"css"} |-> "" ] ]
BasePluginLists == { << >>, << FrameworkDefine, CssPlugin >> }

\* The names the plugin list defines as compile-time constants.
DefinedNames(plugins) ==
  UNION { DOMAIN plugins[i].definitions :
            i \in { j \in 1..Len(plugins) : plugins[j].kind = "DefinePlugin" } }

\* The code a name is replaced by: that of the first plugin defining it.
InlinedCode(plugins, name) ==
  LET defs == { j \in 1..Len(plugins) :
                  /\ plugins[j].kind = "DefinePlugin"
                  /\ name \in DOMAIN plugins[j].definitions }
      first == CHOOSE j \in defs : \A k \in defs : j <= k
  IN  plugins[first].definitions[name]

\* What the bundler inlines into the artifact.
Inlined(plugins) == [ n \in DefinedNames(plugins) |-> InlinedCode(plugins, n) ]

\* ------------------------------------------------------------ images
\* Resolution of an image source under the images setting: with the
\* optimizer off the source is used as is; with it on, a remote host
\* must be listed in domains.
ImageOutcome(images, host) ==
  IF images.unoptimized THEN "unmodified"
  ELSE IF host \in images.domains THEN "optimized" ELSE "rejected"


IdleRequest == [pc |-> "idle", path |-> << >>, todo |-> << >>, resHeaders |-> << >>]
NoBuild == [stage |-> "none", isServer |-> FALSE, runs |-> 0,
            config |-> [ref |-> 0, name |-> "", plugins |-> << >>]]

\* The deployment runs the build command and then the start command, each a
\* process of its own that loads next.config.js.
Commands == {"build", "start"}

Init ==
  /\ command \in Commands
  /\ phase = "loading"
  /\ nextConfig = Unloaded
  /\ routes = << >>
  /\ req = [r \in Requests |-> IdleRequest]
  /\ imgs = [h \in Hosts |-> "none"]
  /\ build = NoBuild
  /\ artifacts = << >>

\* ------------------------------------------------------------ loading
\* The module is evaluated to its last line: module.exports = nextConfig.
LoadConfig ==
  /\ phase = "loading"
  /\ phase' = "configured"
  /\ nextConfig' = nextConfigRecord
  /\ UNCHANGED <<command, routes, req, imgs, build, artifacts>>

\* The throw coming after the export: the record is exported by a load that failed.
LoadFailAfterExport ==
  /\ phase = "loading"
  /\ phase' = "failed"
  /\ nextConfig' = nextConfigRecord
  /\ UNCHANGED <<command, routes, req, imgs, build, artifacts>>

\* require('webpack') throws: nothing is exported and the process stops.
LoadFail ==
  /\ phase = "loading"
  /\ phase' = "failed"
  /\ UNCHANGED <<command, nextConfig, routes, req, imgs, build, artifacts>>

\* ------------------------------------------------------------ serving
\* The framework evaluates headers() and keeps the rules.
EvalHeaders ==
  /\ phase = "configured"
  /\ Len(routes) < MaxEvals
  /\ routes' = Append(routes, headers)
  /\ UNCHANGED <<command, phase, nextConfig, req, imgs, build, artifacts>>

\* A request arrives: the rules of the latest evaluation are matched
\* against its path.
Receive(r, p) ==
  /\ phase = "configured"
  /\ command = "start"
  /\ routes # << >>
  /\ req[r].pc = "idle"
  /\ req' = [req EXCEPT ![r] =
               [pc |-> "attach", path |-> p,
                todo |-> MatchingHeaders(routes[Len(routes)], p),
                resHeaders |-> << >>]]
  /\ UNCHANGED <<command, phase, nextConfig, routes, imgs, build, artifacts>>

\* The next matching header is set on the response.
Attach(r) ==
  /\ req[r].pc = "attach"
  /\ req[r].todo # << >>
  /\ req' = [req EXCEPT ![r].resHeaders = setHeader(@, Head(req[r].todo)),
                        ![r].todo = Tail(@)]
  /\ UNCHANGED <<command, phase, nextConfig, routes, imgs, build, artifacts>>

\* Every matching header is set: the response is sent.
Send(r) ==
  /\ req[r].pc = "attach"
  /\ req[r].todo = << >>
  /\ req' = [req EXCEPT ![r].pc = "sent"]
  /\ UNCHANGED <<command, phase, nextConfig, routes, imgs, build, artifacts>>

\* An image whose source names the host is requested.
RenderImage(h) ==
  /\ phase = "configured"
  /\ command = "start"
  /\ imgs[h] = "none"
  /\ imgs' = [imgs EXCEPT ![h] = ImageOutcome(nextConfig.images, h)]
  /\ UNCHANGED <<command, phase, nextConfig, routes, req, build, artifacts>>

\* ------------------------------------------------------------ building
\* The framework creates the bundler config of a compilation.
BaseConfig(isServer, plugins) ==
  /\ phase = "configured"
  /\ command = "build"
  /\ build.stage = "none"
  /\ Len(artifacts) < MaxBuilds
  /\ build' = [stage |-> "hook", isServer |-> isServer, runs |-> 0,
               config |-> [ref |-> Len(artifacts) + 1,
                           name |-> IF isServer THEN "server" ELSE "client",
                           plugins |-> plugins]]
  /\ UNCHANGED <<command, phase, nextConfig, routes, req, imgs, artifacts>>

\* The hook pushing onto the configuration record as well.
WebpackHookWritesRecord ==
  /\ build.stage = "hook"
  /\ build.runs < MaxHookRuns
  /\ build' = [build EXCEPT !.config = webpack(@, build.isServer),
                            !.runs = @ + 1]
  /\ nextConfig' = [nextConfig EXCEPT
                      !.experimental.serverComponentsExternalPackages = @ \cup {"vue"}]
  /\ UNCHANGED <<command, phase, routes, req, imgs, artifacts>>

\* The framework calls nextConfig.webpack(config, { isServer }).
WebpackHook ==
  /\ build.stage = "hook"
  /\ build.runs < MaxHookRuns
  /\ build' = [build EXCEPT !.config = webpack(@, build.isServer),
                            !.runs = @ + 1]
  /\ UNCHANGED <<command, phase, nextConfig, routes, req, imgs, artifacts>>

\* The bundler runs with the config the hook returned.
Compile ==
  /\ build.stage = "hook"
  /\ build.runs >= 1
  /\ artifacts' = Append(artifacts,
                         [isServer |-> build.isServer,
                          defines  |-> Inlined(build.config.plugins)])
  /\ build' = NoBuild
  /\ UNCHANGED <<command, phase, nextConfig, routes, req, imgs>>

\* ------------------------------------------------------------ specifications
Loading == LoadConfig \/ LoadFail

Serving ==
  \/ EvalHeaders
  \/ \E r \in Requests, p \in Paths : Receive(r, p)
  \/ \E r \in Requests : Attach(r)
  \/ \E r \in Requests : Send(r)

Images == \E h \in Hosts : RenderImage(h)

Building ==
  \/ \E s \in BOOLEAN, ps \in BasePluginLists : BaseConfig(s, ps)
  \/ WebpackHook
  \/ Compile

Next == Loading \/ Serving \/ Images \/ Building

Spec == Init /\ [][Next]_vars


\* ------------------------------------------------------------ properties
\* The values a response carries for a header name, in order.
ValuesOf(resHeaders, key) ==
  [ i \in 1..Cardinality({ j \in 1..Len(resHeaders) : resHeaders[j].key = key }) |->
      LET idx == { j \in 1..Len(resHeaders) : resHeaders[j].key = key }
          nth == CHOOSE j \in idx : Cardinality({ m \in idx : m <= j }) = i
      IN  resHeaders[nth].value ]

\* Some rule of the evaluation has the source "/(.*)", matches the path
\* and carries the header with the value.
RuleGives(rules, p, key, value) ==
  \E i \in 1..Len(rules) :
     /\ rules[i].source = <<"/", "(", ".", "*", ")">>
     /\ Matches(rules[i].source, p)
     /\ \E k \in 1..Len(rules[i].headers) :
           rules[i].headers[k] = [key |-> key, value |-> value]

\* C1: for every request path, the rules every evaluation of headers()
\* returned match the path through the source pattern "/(.*)" with the
\* header Cross-Origin-Embedder-Policy: unsafe-none, and every response
\* that was sent carries that header with exactly that value.
C1_EmbedderPolicy ==
  /\ \A e \in 1..Len(routes) : \A p \in Paths :
        RuleGives(routes[e], p, "Cross-Origin-Embedder-Policy", "unsafe-none")
  /\ \A r \in Requests :
        req[r].pc = "sent" =>
          ValuesOf(req[r].resHeaders, "Cross-Origin-Embedder-Policy") = <<"unsafe-none">>

C1_Witness ==
  \E r \in Requests :
     /\ req[r].pc = "sent"
     /\ req[r].path = ContactPath
     /\ ValuesOf(req[r].resHeaders, "Cross-Origin-Embedder-Policy") = <<"unsafe-none">>

\* C2: for every request path, the rules every evaluation of headers()
\* returned match the path through the source pattern "/(.*)" with the
\* header Cross-Origin-Opener-Policy: same-origin-allow-popups, and every
\* response that was sent carries that header with exactly that value.
C2_OpenerPolicy ==
  /\ \A e \in 1..Len(routes) : \A p \in Paths :
        RuleGives(routes[e], p, "Cross-Origin-Opener-Policy", "same-origin-allow-popups")
  /\ \A r \in Requests :
        req[r].pc = "sent" =>
          ValuesOf(req[r].resHeaders, "Cross-Origin-Opener-Policy")
            = <<"same-origin-allow-popups">>

C2_Witness ==
  \E r \in Requests :
     /\ req[r].pc = "sent"
     /\ req[r].path = ApiPath
     /\ ValuesOf(req[r].resHeaders, "Cross-Origin-Opener-Policy")
          = <<"same-origin-allow-popups">>

\* C3: headers() returns a single rule, and the headers a sent response
\* carries from this layer are the two cross-origin headers, each once,
\* and no other; a response still being prepared carries none but these.
C3_OnlyTheTwoHeaders ==
  /\ \A e \in 1..Len(routes) : Len(routes[e]) = 1
  /\ \A r \in Requests :
        /\ { req[r].resHeaders[i].key : i \in 1..Len(req[r].resHeaders) }
             \subseteq {"Cross-Origin-Embedder-Policy", "Cross-Origin-Opener-Policy"}
        /\ req[r].pc = "sent" =>
             /\ Len(req[r].resHeaders) = 2
             /\ { req[r].resHeaders[i].key : i \in 1..Len(req[r].resHeaders) }
                  = {"Cross-Origin-Embedder-Policy", "Cross-Origin-Opener-Policy"}

C3_Witness ==
  \E r1, r2 \in Requests :
     /\ req[r1].pc = "sent" /\ req[r1].path = RootPath
     /\ req[r2].pc = "sent" /\ req[r2].path = ContactPath
     /\ Len(req[r1].resHeaders) = 2 /\ Len(req[r2].resHeaders) = 2


\* The plugins the hook has pushed onto the config of the run in progress.
HookPlugins ==
  SubSeq(build.config.plugins,
         Len(build.config.plugins) - build.runs + 1, Len(build.config.plugins))

C5_StandaloneOutput ==
  phase = "configured" =>
    /\ "output" \in DOMAIN nextConfig
    /\ nextConfig.output = "standalone"

\* C6: with images.unoptimized true, an image request is never rejected
\* and the image is served unmodified, for every hostname and every value
\* of the allowlist, the empty one included.
C6_NoDomainGate ==
  /\ phase = "configured" =>
       \A doms \in SUBSET Hosts : \A h \in Hosts :
          ImageOutcome([nextConfig.images EXCEPT !.domains = doms], h) = "unmodified"
  /\ \A h \in Hosts : imgs[h] \in {"none", "unmodified"}

C6_Witness ==
  /\ phase = "configured"
  /\ "images.example.com" \notin nextConfig.images.domains
  /\ imgs["images.example.com"] = "unmodified"

\* C7: every evaluation of headers() in a process gives the same rule
\* sequence, and every build gives the three flags the same values,
\* whichever target (isServer) and base config the hook was called with
\* and whatever was evaluated before.
C7_SameOnEveryEvaluation ==
  LET Flags == {"__VUE_OPTIONS_API__", "__VUE_PROD_DEVTOOLS__",
                "__VUE_PROD_HYDRATION_MISMATCH_DETAILS__"}
  IN  /\ \A i, j \in 1..Len(routes) : routes[i] = routes[j]
      /\ \A i, j \in 1..Len(HookPlugins) : HookPlugins[i] = HookPlugins[j]
      /\ \A i, j \in 1..Len(artifacts) :
            /\ Flags \subseteq DOMAIN artifacts[i].defines
            /\ \A f \in Flags : artifacts[i].defines[f] = artifacts[j].defines[f]
      /\ \A i \in 1..Len(artifacts) : \A k \in 1..Len(HookPlugins) :
            \A f \in Flags : HookPlugins[k].definitions[f] = artifacts[i].defines[f]

C7_Witness ==
  /\ Len(routes) = 2
  /\ routes[1] = routes[2]
  /\ Len(artifacts) = 2
  /\ artifacts[1].isServer # artifacts[2].isServer
  /\ artifacts[1].defines # artifacts[2].defines

\* C8: once the record is constructed it keeps the values of the literal
\* (lint setting, image settings, external packages) and the process stays
\* configured, whatever headers() calls, hook invocations and requests
\* follow.
C8_RecordNeverMutated ==
  /\ [](phase = "configured" =>
          nextConfig =
            [ eslint       |-> [ignoreDuringBuilds |-> TRUE],
              images       |-> [unoptimized |-> TRUE,
                                domains |-> {"n8n2.ibhost.online"}],
              experimental |-> [serverComponentsExternalPackages |-> {"@n8n/chat"}] ])
  /\ [][phase = "configured" =>
          (phase' = "configured" /\ nextConfig' = nextConfig)]_vars

C8_Witness ==
  /\ phase = "configured"
  /\ nextConfig = nextConfigRecord
  /\ Len(routes) = 2
  /\ Len(artifacts) = 1
  /\ build.runs = 2

\* C9: a failed load is final and nothing is applied after it: no rules are
\* evaluated, no request is handled, no build is run and the process never
\* becomes configured; and whatever is served or built carries every
\* header of the rules and all three flags.
C9_FatalOrNothing ==
  /\ [](phase = "failed" =>
           /\ nextConfig = Unloaded
           /\ routes = << >>
           /\ \A r \in Requests : req[r].pc = "idle"
           /\ \A h \in Hosts : imgs[h] = "none"
           /\ build.stage = "none"
           /\ artifacts = << >>)
  /\ [](\A r \in Requests : req[r].pc = "sent" =>
           \A e \in 1..Len(routes) : \A i \in 1..Len(routes[e]) :
              \A k \in 1..Len(routes[e][i].headers) :
                 \E m \in 1..Len(req[r].resHeaders) :
                    req[r].resHeaders[m] = routes[e][i].headers[k])
  /\ [](\A i \in 1..Len(artifacts) :
           {"__VUE_OPTIONS_API__", "__VUE_PROD_DEVTOOLS__",
            "__VUE_PROD_HYDRATION_MISMATCH_DETAILS__"}
              \subseteq DOMAIN artifacts[i].defines)
  /\ [][phase = "failed" => UNCHANGED vars]_vars

C9_Witness == phase = "failed"

\* C10: in every interleaving of the request handlers, a response is sent
\* only after every matching header is attached, and all sent responses
\* carry the same two headers with the same two values.
C10_AttachedBeforeSent ==
  /\ \A r \in Requests :
        req[r].pc = "sent" =>
          /\ req[r].todo = << >>
          /\ req[r].resHeaders =
               << [key |-> "Cross-Origin-Embedder-Policy", value |-> "unsafe-none"],
                  [key |-> "Cross-Origin-Opener-Policy",
                   value |-> "same-origin-allow-popups"] >>
  /\ \A r1, r2 \in Requests :
        (req[r1].pc = "sent" /\ req[r2].pc = "sent") =>
           req[r1].resHeaders = req[r2].resHeaders

C10_Witness ==
  \E r1, r2 \in Requests :
     /\ r1 # r2
     /\ req[r1].pc = "sent"
     /\ req[r1].path = ProjectPath
     /\ req[r2].pc = "attach"
     /\ Len(req[r2].resHeaders) = 1
     /\ req[r2].path = RootPath


\* C11: every invocation of the webpack hook, for isServer true and for
\* isServer false, appends exactly one constant-definition plugin at the
\* end of the plugin list, keeps the plugins already there in their order,
\* changes no other field of the bundler config and returns the same
\* config object; a further invocation appends one more.
C11_HookAppendsOnePlugin ==
  [][(build'.stage = "hook" /\ build.stage = "hook"
        /\ build'.runs = build.runs + 1) =>
       /\ Len(build'.config.plugins) = Len(build.config.plugins) + 1
       /\ SubSeq(build'.config.plugins, 1, Len(build.config.plugins))
            = build.config.plugins
       /\ build'.config.plugins[Len(build'.config.plugins)].kind = "DefinePlugin"
       /\ DOMAIN build'.config.plugins[Len(build'.config.plugins)].definitions
            = {"__VUE_OPTIONS_API__", "__VUE_PROD_DEVTOOLS__",
               "__VUE_PROD_HYDRATION_MISMATCH_DETAILS__"}
       /\ build'.config.ref = build.config.ref
       /\ build'.config.name = build.config.name
       /\ DOMAIN build'.config = DOMAIN build.config
       /\ build'.isServer = build.isServer]_vars

C11_Witness ==
  /\ Len(artifacts) = 1
  /\ artifacts[1].isServer
  /\ build.stage = "hook"
  /\ ~build.isServer
  /\ build.runs = 2
  /\ Len(build.config.plugins) = 4
  /\ SubSeq(build.config.plugins, 1, 2) = << FrameworkDefine, CssPlugin >>
  /\ build.config.plugins[3].kind = "DefinePlugin"
  /\ build.config.plugins[4] = build.config.plugins[3]

====
